---------------------------- MODULE Spec2Model ----------------------------
(***************************************************************************)
(* The batch classification-and-partition pipeline of the ImageClassifier  *)
(* component (components/ImageClassifier.tsx) and of the Home page that    *)
(* hosts it (pages/Home.tsx).                                              *)
(*                                                                         *)
(* Strings are sequences of one-character strings, so that toLowerCase     *)
(* and the template literals are computed character by character.          *)
(* Floating-point model outputs are integers in units of one half:         *)
(* 1 and 2 stand for 0.5 and 1.0.                                          *)
(* A File is an integer: 0 is a file whose type is not image/*, the files  *)
(* 1..MaxImages are images.                                                 *)
(***************************************************************************)
EXTENDS Integers, Sequences, FiniteSets

(***************************************************************************)
(* Bounds of the model.                                                    *)
(***************************************************************************)
\* the images of a session: the image files there are to select, and how
\* many images a session hands to processBatchImages
MaxImages == 2

\* the last millisecond of the clock
MaxTime == 1

(***************************************************************************)
(* Program constants.                                                      *)
(***************************************************************************)
\* confidence >= 1.0, in units of one half
One == 2

\* the model is a binary classifier: its output has two values
NumClasses == 2

\* toISOString().slice(0, 19) keeps the seconds and drops the milliseconds
MsPerSecond == 1000

(***************************************************************************)
(* Strings.                                                                *)
(***************************************************************************)
Upper ==
  << "A", "B", "C", "D", "E", "F", "G", "H", "I", "J", "K", "L", "M",
     "N", "O", "P", "Q", "R", "S", "T", "U", "V", "W", "X", "Y", "Z" >>

Lower ==
  << "a", "b", "c", "d", "e", "f", "g", "h", "i", "j", "k", "l", "m",
     "n", "o", "p", "q", "r", "s", "t", "u", "v", "w", "x", "y", "z" >>

Digit == << "0", "1", "2", "3", "4", "5", "6", "7", "8", "9" >>

LowerChar(c) ==
  IF \E k \in 1..Len(Upper) : Upper[k] = c
    THEN Lower[CHOOSE k \in 1..Len(Upper) : Upper[k] = c]
    ELSE c

\* String.prototype.toLowerCase
ToLowerCase(s) == [k \in 1..Len(s) |-> LowerChar(s[k])]

\* the decimal digits a template literal writes for a non-negative integer
RECURSIVE ToString(_)
ToString(n) ==
  IF n < 10 THEN << Digit[n + 1] >>
            ELSE ToString(n \div 10) \o << Digit[(n % 10) + 1] >>

StrNormal == << "n", "o", "r", "m", "a", "l" >>

StrTheft == << "t", "h", "e", "f", "t" >>

StrUnidentified ==
  << "u", "n", "i", "d", "e", "n", "t", "i", "f", "i", "e", "d" >>

StrJpg == << ".", "j", "p", "g" >>

StrZip == << ".", "z", "i", "p" >>

StrFiltered == << "f", "i", "l", "t", "e", "r", "e", "d", "_" >>

StrClass == << "C", "l", "a", "s", "s", " " >>

\* useState<string[]>(['theft', 'Normal'])
DefaultClassNames == << StrTheft, << "N", "o", "r", "m", "a", "l" >> >>

\* The label lists /metadata.json may supply (metadata.labels): a list
\* shorter than the model's output, a label in another case, an empty label.
MetadataLabels ==
  { << << "N", "O", "R", "M", "A", "L" >> >>,
    << << >>, << "t", "a", "m", "p", "e", "r", "e", "d" >> >> }

(***************************************************************************)
(* Files and model outputs.                                                *)
(***************************************************************************)
ImageFiles == 1..MaxImages

AllFiles == 0..MaxImages

\* file.type.startsWith('image/')
IsImageFile(f) == f \in ImageFiles

\* The files of a set, in the order the browser lists them.
RECURSIVE FileListOf(_)
FileListOf(S) ==
  IF S = {} THEN << >>
  ELSE LET f == CHOOSE x \in S : \A y \in S : x <= y
       IN << f >> \o FileListOf(S \ { f })

\* What the user may select: the files 0..k, for some k.
FileLists == { FileListOf(0..k) : k \in 0..MaxImages }

ProbValues == (One - 1)..One

\* what predictions.data() resolves to
Outputs == [1..NumClasses -> ProbValues]

(***************************************************************************)
(* The classification of one item (processBatchImages, loop body).         *)
(***************************************************************************)
\* Array.prototype.unshift, where the code calls push
Unshift(array, x) == << x >> \o array

\* Array.prototype.push
Push(array, x) == Append(array, x)

\* the scan with >= for >: the last of the highest values wins
RECURSIVE ArgMaxScanLast(_, _, _)
ArgMaxScanLast(probs, j, maxIndex) ==
  IF j >= Len(probs) THEN maxIndex
  ELSE IF probs[j + 1] >= probs[maxIndex + 1]
         THEN ArgMaxScanLast(probs, j + 1, j)
         ELSE ArgMaxScanLast(probs, j + 1, maxIndex)

\* The scan for the class with the highest probability; indices from 0.
RECURSIVE ArgMaxScan(_, _, _)
ArgMaxScan(probs, j, maxIndex) ==
  IF j >= Len(probs) THEN maxIndex
  ELSE IF probs[j + 1] > probs[maxIndex + 1]
         THEN ArgMaxScan(probs, j + 1, j)
         ELSE ArgMaxScan(probs, j + 1, maxIndex)

MaxIndexOf(probs) == ArgMaxScan(probs, 1, 0)

MaxProbabilityOf(probs) == probs[MaxIndexOf(probs) + 1]

\* a JavaScript string is falsy exactly when it is empty
Truthy(s) == s # << >>

\* classNames[maxIndex] || `Class ${maxIndex}`
ClassificationOf(names, maxIndex) ==
  IF maxIndex < Len(names) /\ Truthy(names[maxIndex + 1])
    THEN names[maxIndex + 1]
    ELSE StrClass \o ToString(maxIndex)

\* the routing with > for >=
CategoryOfAboveOne(confidence, classification) ==
  IF confidence > One
    THEN IF ToLowerCase(classification) = StrNormal
           THEN StrNormal
           ELSE StrTheft
    ELSE StrUnidentified

\* the routing that compares the label without toLowerCase
CategoryOfExactCase(confidence, classification) ==
  IF confidence >= One
    THEN IF classification = StrNormal
           THEN StrNormal
           ELSE StrTheft
    ELSE StrUnidentified

\* the folder an item goes to
CategoryOf(confidence, classification) ==
  IF confidence >= One
    THEN IF ToLowerCase(classification) = StrNormal
           THEN StrNormal
           ELSE StrTheft
    ELSE StrUnidentified

(***************************************************************************)
(* State.                                                                  *)
(***************************************************************************)
VARIABLES
  \* ImageClassifier: useState
  model,              \* "null" or "loaded"
  isModelLoading,
  classNames,
  classifiedImages,
  batchImages,
  isBatchProcessing,
  batchProgress,
  \* Home: useState
  classifications,
  \* the loadLocalModel call in flight: "idle", "model", "metadata"
  loadPc,
  \* the processBatchImages call, in flight or the last one that ended:
  \* the await it is suspended at ("idle", "preprocess", "data", "import",
  \* "generate"), what its closure captured, and its locals
  pc,
  images,             \* batchImages, as captured by the closure
  names,              \* classNames, as captured by the closure
  i,
  normalImages,
  theftImages,
  unidentifiedImages,
  processedImages,
  probabilities,
  folderName,
  zip,
  \* the environment
  now,                \* the last reading of the clock (milliseconds)
  imgLoad,            \* the Image preprocessImage waits on: "none", "loading", "error"
  tensors,            \* the number of live tf.Tensor objects
  alerts,             \* the alert() calls since the last button was pressed
  downloads,          \* the files link.click() has downloaded
  submitted           \* how many images processBatchImages was started with

compVars ==
  << model, isModelLoading, classNames, classifiedImages, batchImages,
     isBatchProcessing, batchProgress >>

runVars ==
  << pc, images, names, i, normalImages, theftImages, unidentifiedImages,
     processedImages, probabilities, folderName, zip >>

envVars == << now, imgLoad, tensors, alerts, downloads, submitted >>

vars == << compVars, classifications, loadPc, runVars, envVars >>

AlertLoadFailed == "Failed to load local model"

AlertNotReady ==
  "Please wait for model to load and select images for batch processing"

AlertComplete == "Batch processing complete!"

AlertFailed == "Failed to process batch images. Please try again."

Init ==
  /\ model = "null"
  /\ isModelLoading = FALSE
  /\ classNames = DefaultClassNames
  /\ classifiedImages = << >>
  /\ batchImages = << >>
  /\ isBatchProcessing = FALSE
  /\ batchProgress = [current |-> 0, total |-> 0]
  /\ classifications = << >>
  /\ loadPc = "idle"
  /\ pc = "idle"
  /\ images = << >>
  /\ names = << >>
  /\ i = 0
  /\ normalImages = << >>
  /\ theftImages = << >>
  /\ unidentifiedImages = << >>
  /\ processedImages = << >>
  /\ probabilities = << >>
  /\ folderName = << >>
  /\ zip = {}
  /\ now = 0
  /\ imgLoad = "none"
  /\ tensors = 0
  /\ alerts = << >>
  /\ downloads = << >>
  /\ submitted = 0

(***************************************************************************)
(* loadLocalModel.                                                         *)
(***************************************************************************)
\* The mount effect, or the Retry button (shown when the model is not
\* loading and not loaded): up to the first await.
LoadLocalModel ==
  /\ model = "null" /\ ~isModelLoading
  /\ loadPc = "idle"
  /\ isModelLoading' = TRUE
  /\ loadPc' = "model"
  /\ alerts' = << >>
  /\ UNCHANGED << model, classNames, classifiedImages, batchImages,
                  isBatchProcessing, batchProgress, classifications,
                  runVars, now, imgLoad, tensors, downloads, submitted >>

\* tf.loadLayersModel, or after its failure tf.loadGraphModel, resolves:
\* setModel, then the metadata request.
ModelLoaded ==
  /\ loadPc = "model"
  /\ model' = "loaded"
  /\ loadPc' = "metadata"
  /\ UNCHANGED << isModelLoading, classNames, classifiedImages, batchImages,
                  isBatchProcessing, batchProgress, classifications,
                  runVars, envVars >>

\* Both loaders reject: the outer catch and the finally.
ModelLoadFailed ==
  /\ loadPc = "model"
  /\ alerts' = Append(alerts, AlertLoadFailed)
  /\ isModelLoading' = FALSE
  /\ loadPc' = "idle"
  /\ UNCHANGED << model, classNames, classifiedImages, batchImages,
                  isBatchProcessing, batchProgress, classifications,
                  runVars, now, imgLoad, tensors, downloads, submitted >>

\* The metadata arrives with labels: setClassNames, then the finally.
MetadataLoaded ==
  /\ loadPc = "metadata"
  /\ \E labels \in MetadataLabels : classNames' = labels
  /\ isModelLoading' = FALSE
  /\ loadPc' = "idle"
  /\ UNCHANGED << model, classifiedImages, batchImages, isBatchProcessing,
                  batchProgress, classifications, runVars, envVars >>

\* The metadata request fails, is not ok, or has no labels: the finally.
MetadataMissing ==
  /\ loadPc = "metadata"
  /\ isModelLoading' = FALSE
  /\ loadPc' = "idle"
  /\ UNCHANGED << model, classNames, classifiedImages, batchImages,
                  isBatchProcessing, batchProgress, classifications,
                  runVars, envVars >>

(***************************************************************************)
(* handleBatchImageSelect.                                                 *)
(***************************************************************************)
\* the button without its disabled attribute
SelectButtonAlwaysEnabled == TRUE

\* "Select Multiple Images": disabled={!model}
SelectButtonEnabled == model # "null"

\* The file input, opened by the button that is disabled without a model.
HandleBatchImageSelect ==
  /\ SelectButtonEnabled
  /\ \E files \in FileLists : batchImages' = SelectSeq(files, IsImageFile)
  /\ UNCHANGED << model, isModelLoading, classNames, classifiedImages,
                  isBatchProcessing, batchProgress, classifications, loadPc,
                  runVars, envVars >>

(***************************************************************************)
(* processBatchImages.                                                     *)
(***************************************************************************)
\* the call returns: its closure and its locals are gone
Return ==
  /\ pc' = "idle"
  /\ images' = << >>
  /\ names' = << >>
  /\ i' = 0
  /\ normalImages' = << >>
  /\ theftImages' = << >>
  /\ unidentifiedImages' = << >>
  /\ processedImages' = << >>
  /\ probabilities' = << >>
  /\ folderName' = << >>
  /\ zip' = {}

\* the finally without setBatchProgress
AbortWithoutProgressReset ==
  /\ alerts' = Append(alerts, AlertFailed)
  /\ isBatchProcessing' = FALSE
  /\ batchProgress' = batchProgress
  /\ imgLoad' = "none"
  /\ Return

\* catch and finally of processBatchImages
Abort ==
  /\ alerts' = Append(alerts, AlertFailed)
  /\ isBatchProcessing' = FALSE
  /\ batchProgress' = [current |-> 0, total |-> 0]
  /\ imgLoad' = "none"
  /\ Return

\* the button without its disabled attribute
ProcessButtonNeverDisabled == Len(batchImages) > 0

\* "Process Images": {batchImages.length > 0 && <button
\* onClick={processBatchImages} disabled={isBatchProcessing}>}
ProcessButtonEnabled == Len(batchImages) > 0 /\ ~isBatchProcessing

\* The "Process Images" button, rendered when batchImages is not empty and
\* disabled while isBatchProcessing: the call up to its first await.
ProcessBatchImages ==
  /\ ProcessButtonEnabled
  /\ submitted + Len(batchImages) <= MaxImages
  /\ IF model = "null" \/ Len(batchImages) = 0
       THEN /\ alerts' = << AlertNotReady >>
            /\ UNCHANGED << isBatchProcessing, batchProgress, runVars, imgLoad,
                            submitted >>
       ELSE /\ isBatchProcessing' = TRUE
            /\ submitted' = submitted + Len(batchImages)
            /\ alerts' = << >>
            /\ images' = batchImages
            /\ names' = classNames
            /\ normalImages' = << >>
            /\ theftImages' = << >>
            /\ unidentifiedImages' = << >>
            /\ processedImages' = << >>
            /\ i' = 0
            /\ batchProgress' = [current |-> 1, total |-> Len(batchImages)]
            /\ imgLoad' = "loading"
            /\ pc' = "preprocess"
            /\ UNCHANGED << probabilities, folderName, zip >>
  /\ UNCHANGED << model, isModelLoading, classNames, classifiedImages,
                  batchImages, classifications, loadPc, now, tensors,
                  downloads >>

\* img.onload: fromPixels and div make two tensors, expandDims a third,
\* model.predict a fourth; the call is suspended at predictions.data().
ImageLoaded ==
  /\ pc = "preprocess" /\ imgLoad = "loading"
  /\ tensors' = tensors + 4
  /\ imgLoad' = "none"
  /\ pc' = "data"
  /\ UNCHANGED << compVars, classifications, loadPc, images, names, i,
                  normalImages, theftImages, unidentifiedImages,
                  processedImages, probabilities, folderName, zip, now,
                  alerts, downloads, submitted >>

\* img.onload, and model.predict throws.
PredictFailed ==
  /\ pc = "preprocess" /\ imgLoad = "loading"
  /\ tensors' = tensors + 3
  /\ Abort
  /\ UNCHANGED << model, isModelLoading, classNames, classifiedImages,
                  batchImages, classifications, loadPc, now, downloads, submitted >>

\* The image cannot be decoded: the error event has no handler, and the
\* promise of preprocessImage is never settled.
ImageError ==
  /\ pc = "preprocess" /\ imgLoad = "loading"
  /\ imgLoad' = "error"
  /\ UNCHANGED << compVars, classifications, loadPc, runVars, now, tensors,
                  alerts, downloads, submitted >>

\* What Date.now() may read: the clock does not run backwards.
DateNow == now..MaxTime

\* new Date().toISOString().slice(0, 19).replace(/:/g, '-'): the date and
\* time of day to the second, here the seconds of the clock
IsoSeconds(t) == ToString(t \div MsPerSecond)

\* the callback that records every classification twice
HandleImageClassifiedTwice(prev, classification) ==
  prev \o << classification, classification >>

\* Home.handleImageClassified, the onImageClassified of the component:
\* setClassifications((prev) => [...prev, classification])
HandleImageClassified(prev, classification) == prev \o << classification >>

\* predictions.data() resolves: the rest of the loop body, and then either
\* the next iteration up to preprocessImage, or the steps up to import('jszip').
DataResolved ==
  /\ pc = "data"
  /\ \E probs \in Outputs, timestamp \in DateNow :
       LET image == images[i + 1]
           maxIndex == MaxIndexOf(probs)
           classification == ClassificationOf(names, maxIndex)
           confidence == MaxProbabilityOf(probs)
           category == CategoryOf(confidence, classification)
       IN /\ probabilities' = probs
          /\ normalImages' =
               IF category = StrNormal THEN Push(normalImages, image)
                                       ELSE normalImages
          /\ theftImages' =
               IF category = StrTheft THEN Push(theftImages, image)
                                      ELSE theftImages
          /\ unidentifiedImages' =
               IF category = StrUnidentified
                 THEN Push(unidentifiedImages, image)
                 ELSE unidentifiedImages
          /\ processedImages' =
               Push(processedImages,
                    [file |-> image, classification |-> classification,
                     timestamp |-> timestamp, confidence |-> confidence])
          /\ classifications' =
               HandleImageClassified(classifications, classification)
          /\ now' = timestamp
          /\ IF i + 1 < Len(images)
               THEN UNCHANGED folderName
               ELSE folderName' = StrFiltered \o IsoSeconds(timestamp)
  /\ tensors' = tensors - 3
  /\ i' = i + 1
  /\ IF i + 1 < Len(images)
       THEN /\ batchProgress' = [current |-> i + 2, total |-> Len(images)]
            /\ imgLoad' = "loading"
            /\ pc' = "preprocess"
       ELSE /\ pc' = "import"
            /\ UNCHANGED << batchProgress, imgLoad >>
  /\ UNCHANGED << model, isModelLoading, classNames, classifiedImages,
                  batchImages, isBatchProcessing, loadPc, images, names, zip,
                  alerts, downloads, submitted >>

\* predictions.data() rejects.
DataRejected ==
  /\ pc = "data"
  /\ Abort
  /\ UNCHANGED << model, isModelLoading, classNames, classifiedImages,
                  batchImages, classifications, loadPc, now, tensors,
                  downloads, submitted >>

(***************************************************************************)
(* The archive: a JSZip object is a set of entries, one per path.          *)
(***************************************************************************)
\* zip.folder(name)
ZipFolder(z, name) ==
  IF \E e \in z : e.path = name \o << "/" >>
    THEN z
    ELSE z \cup { [path |-> name \o << "/" >>, dir |-> TRUE, data |-> << >>] }

\* folder.file(name, data): an entry of the same path is replaced
ZipFile(z, folder, name, file) ==
  LET path == folder \o << "/" >> \o name
  IN { e \in z : e.path # path }
       \cup { [path |-> path, dir |-> FALSE, data |-> << file >>] }

\* the file name without the index
FileNameOfTime(category, time, index) ==
  category \o << "_" >> \o ToString(time) \o StrJpg

\* `normal_${Date.now()}_${index}.jpg`
FileNameOf(category, time, index) ==
  category \o << "_" >> \o ToString(time) \o << "_" >> \o ToString(index)
    \o StrJpg

\* if (files.length > 0) { folder = zip.folder(category); files.forEach(...) }
\* times[k] is what Date.now() reads for the k-th file
RECURSIVE ForEachFile(_, _, _, _, _)
ForEachFile(z, category, files, times, index) ==
  IF index >= Len(files) THEN z
  ELSE ForEachFile(
         ZipFile(z, category,
                 FileNameOf(category, times[index + 1], index),
                 files[index + 1]),
         category, files, times, index + 1)

\* the folder made also for a category without images
AddCategoryAlways(z, category, files, times) ==
  ForEachFile(ZipFolder(z, category), category, files, times, 0)

AddCategory(z, category, files, times) ==
  IF Len(files) > 0
    THEN ForEachFile(ZipFolder(z, category), category, files, times, 0)
    ELSE z

\* the three blocks that fill the archive
BuildZip(normal, theft, unidentified, times) ==
  LET a == Len(normal)
      b == Len(theft)
      c == Len(unidentified)
      z1 == AddCategory({}, StrNormal, normal, SubSeq(times, 1, a))
      z2 == AddCategory(z1, StrTheft, theft, SubSeq(times, a + 1, a + b))
  IN AddCategory(z2, StrUnidentified, unidentified,
                 SubSeq(times, a + b + 1, a + b + c))

\* the readings of a clock that starts at t: non-decreasing, from t on
ClockReadings(t, n) ==
  { times \in [1..n -> t..MaxTime] :
      \A k \in 1..(n - 1) : times[k] <= times[k + 1] }

\* import('jszip') resolves: the archive is filled, up to zip.generateAsync.
ImportResolved ==
  /\ pc = "import"
  /\ \E times \in ClockReadings(now, Len(images)) :
       /\ zip' = BuildZip(normalImages, theftImages, unidentifiedImages, times)
       /\ now' = times[Len(images)]
  /\ pc' = "generate"
  /\ UNCHANGED << compVars, classifications, loadPc, images, names, i,
                  normalImages, theftImages, unidentifiedImages,
                  processedImages, probabilities, folderName, imgLoad,
                  tensors, alerts, downloads, submitted >>

\* import('jszip') rejects.
ImportRejected ==
  /\ pc = "import"
  /\ Abort
  /\ UNCHANGED << model, isModelLoading, classNames, classifiedImages,
                  batchImages, classifications, loadPc, now, tensors,
                  downloads, submitted >>

\* setClassifiedImages((prev) => [...prev, ...processedImages])
MergeHistory(prev, processed) == prev \o processed

\* zip.generateAsync resolves: the download, the merge into the history,
\* the alert, and the finally.
GenerateResolved ==
  /\ pc = "generate"
  /\ downloads' =
       Append(downloads, [download |-> folderName \o StrZip, blob |-> zip])
  /\ classifiedImages' = MergeHistory(classifiedImages, processedImages)
  /\ batchImages' = << >>
  /\ alerts' = Append(alerts, AlertComplete)
  /\ isBatchProcessing' = FALSE
  /\ batchProgress' = [current |-> 0, total |-> 0]
  /\ Return
  /\ UNCHANGED << model, isModelLoading, classNames, classifications, loadPc,
                  now, imgLoad, tensors, submitted >>

\* zip.generateAsync rejects.
GenerateRejected ==
  /\ pc = "generate"
  /\ Abort
  /\ UNCHANGED << model, isModelLoading, classNames, classifiedImages,
                  batchImages, classifications, loadPc, now, tensors,
                  downloads, submitted >>

(***************************************************************************)
(* getClassificationStats.                                                 *)
(***************************************************************************)
\* classifiedImages.filter((item) => ...).length, for a label and
\* item.confidence >= 1.0
CountOfLabel(history, label) ==
  Cardinality({ k \in 1..Len(history) :
                  /\ ToLowerCase(history[k].classification) = label
                  /\ history[k].confidence >= One })

GetClassificationStats(history) ==
  [normalCount |-> CountOfLabel(history, StrNormal),
   theftCount |-> CountOfLabel(history, StrTheft),
   unidentifiedCount |->
     Cardinality({ k \in 1..Len(history) : history[k].confidence < One })]

Next ==
  \/ LoadLocalModel
  \/ ModelLoaded
  \/ ModelLoadFailed
  \/ MetadataLoaded
  \/ MetadataMissing
  \/ HandleBatchImageSelect
  \/ ProcessBatchImages
  \/ ImageLoaded
  \/ PredictFailed
  \/ ImageError
  \/ DataResolved
  \/ DataRejected
  \/ ImportResolved
  \/ ImportRejected
  \/ GenerateResolved
  \/ GenerateRejected

Spec == Init /\ [][Next]_vars

\* The promises the runtime settles and the events it delivers; the user's
\* clicks and selections may never come.
Settle ==
  \/ ModelLoaded
  \/ ModelLoadFailed
  \/ MetadataLoaded
  \/ MetadataMissing
  \/ ImageLoaded
  \/ PredictFailed
  \/ ImageError
  \/ DataResolved
  \/ DataRejected
  \/ ImportResolved
  \/ ImportRejected
  \/ GenerateResolved
  \/ GenerateRejected

FairSpec == Spec /\ WF_vars(Settle)

(***************************************************************************)
(* Properties.                                                             *)
(***************************************************************************)
Last(s) == s[Len(s)]

InSeq(x, s) == \E k \in 1..Len(s) : s[k] = x

SameLetter(c, d) ==
  c = d \/ \E k \in 1..Len(Upper) : { c, d } = { Upper[k], Lower[k] }

EqualsIgnoreCase(a, b) ==
  Len(a) = Len(b) /\ \A k \in 1..Len(a) : SameLetter(a[k], b[k])

StartsWith(s, prefix) ==
  Len(prefix) <= Len(s) /\ SubSeq(s, 1, Len(prefix)) = prefix

Categories == { StrNormal, StrTheft, StrUnidentified }

\* the images the run has put aside for a folder
ImagesFor(category) ==
  IF category = StrNormal THEN normalImages
  ELSE IF category = StrTheft THEN theftImages
  ELSE unidentifiedImages

\* the files of an archive that are in a folder
FilesIn(z, category) ==
  { e \in z : ~e.dir /\ StartsWith(e.path, category \o << "/" >>) }

HasFolder(z, category) ==
  \E e \in z : e.dir /\ e.path = category \o << "/" >>

\* the lowest index (from 0) that holds the highest value
LowestMaximum(probs) ==
  CHOOSE m \in 0..(Len(probs) - 1) :
    /\ \A j \in 1..Len(probs) : probs[j] <= probs[m + 1]
    /\ \A j \in 1..m : probs[j] < probs[m + 1]

\* the step in which a run ends with the alert of success
CompletesSuccessfully ==
  pc = "generate" /\ pc' = "idle" /\ alerts' = << AlertComplete >>

\* the step in which a run ends in the catch block after the last item
ArchiveFails ==
  pc \in { "import", "generate" } /\ pc' = "idle"
    /\ alerts' = << AlertFailed >>

\* C1: when a batch run completes successfully, the results have exactly one
\* entry per input image, the k-th result is the one of the k-th input
\* image, and these results are what the run appends to classifiedImages.
C1_ResultsMatchInputs ==
  [][CompletesSuccessfully =>
       /\ Len(processedImages) = Len(images)
       /\ \A k \in 1..Len(images) : processedImages[k].file = images[k]
       /\ Len(classifiedImages') = Len(classifiedImages) + Len(images)
       /\ \A k \in 1..Len(images) :
            classifiedImages'[Len(classifiedImages) + k].file = images[k]
       /\ \A k \in 1..Len(classifiedImages) :
            classifiedImages'[k] = classifiedImages[k]]_vars

\* a run of two different images has completed
C1_Witness ==
  /\ pc = "idle" /\ alerts = << AlertComplete >>
  /\ Len(classifiedImages) = 2
  /\ classifiedImages[1].file # classifiedImages[2].file

\* C2: every classified image is put aside for exactly one folder, decided
\* by its confidence and label alone: confidence >= 1.0 and the label
\* "normal" in any case: normal; confidence >= 1.0 and another label: theft;
\* confidence < 1.0: unidentified, whatever the label.
C2_RoutingPolicy ==
  /\ \A k \in 1..Len(processedImages) :
       LET r == processedImages[k]
           expected ==
             IF r.confidence < One THEN StrUnidentified
             ELSE IF EqualsIgnoreCase(r.classification, StrNormal)
                    THEN StrNormal
                    ELSE StrTheft
       IN \A category \in Categories :
            InSeq(r.file, ImagesFor(category)) <=> category = expected
  /\ Len(normalImages) + Len(theftImages) + Len(unidentifiedImages)
       = Len(processedImages)

\* one image labelled "NORMAL" went to normal with confidence 1.0, another
\* one labelled "NORMAL" went to unidentified with confidence 0.5
C2_Witness ==
  /\ Len(processedImages) = 2
  /\ Len(normalImages) = 1 /\ Len(unidentifiedImages) = 1
  /\ \A k \in 1..2 :
       processedImages[k].classification = << "N", "O", "R", "M", "A", "L" >>

\* C3: when the preprocessing or the classification of an item has failed,
\* the run is aborted: it is no longer in flight, and the user has got one
\* failure notification.
C3_AbortsOnItemFailure ==
  (imgLoad = "error" \/ alerts = << AlertFailed >>) =>
    /\ pc = "idle"
    /\ ~isBatchProcessing
    /\ alerts = << AlertFailed >>

\* C4: a batch run never stays in flight forever: whenever a run is in
\* flight, also with an image that cannot be decoded, it ends and the
\* processing state is cleared.
C4_RunEnds == isBatchProcessing ~> ~isBatchProcessing

\* C5: the archive holds exactly one file per image of the batch, in the
\* folder of each category as many files as images went to it, and a folder
\* exactly for the categories that got an image.
C5_ArchiveComplete ==
  pc = "generate" =>
    /\ Cardinality({ e \in zip : ~e.dir }) = Len(images)
    /\ Len(normalImages) + Len(theftImages) + Len(unidentifiedImages)
         = Len(images)
    /\ \A category \in Categories :
         /\ Cardinality(FilesIn(zip, category)) = Len(ImagesFor(category))
         /\ HasFolder(zip, category) <=> Len(ImagesFor(category)) > 0
    /\ \A e \in zip : e.dir => \E category \in Categories :
                                 e.path = category \o << "/" >>

\* an archive with a category that got no image
C5_Witness ==
  /\ pc = "generate"
  /\ Len(normalImages) = 1 /\ Len(theftImages) = 0
  /\ Len(unidentifiedImages) = 1

\* C6: in the archive, two different images of one category are two files
\* with different names of that category's folder: none overwrites another.
C6_DistinctFileNames ==
  pc = "generate" =>
    \A category \in Categories :
      LET files == ImagesFor(category)
      IN \A j, k \in 1..Len(files) :
           j # k =>
             \E e1, e2 \in FilesIn(zip, category) :
               /\ e1.data = << files[j] >>
               /\ e2.data = << files[k] >>
               /\ e1.path # e2.path

\* two images of one category, written in the same millisecond
C6_Witness ==
  /\ pc = "generate"
  /\ \E category \in Categories, t \in 0..MaxTime :
       \E e1, e2 \in FilesIn(zip, category) :
         /\ e1.path = category \o << "/" >> \o FileNameOf(category, t, 0)
         /\ e2.path = category \o << "/" >> \o FileNameOf(category, t, 1)

\* C7: when the archive fails after every item was classified, the results
\* of the run are still appended to classifiedImages.
C7_ResultsKeptOnArchiveFailure ==
  [][ArchiveFails =>
       classifiedImages' = classifiedImages \o processedImages]_vars

\* C8: the item is labelled by the lowest index that holds the highest
\* model output, and its confidence is the output at that index.
C8_LowestMaximum ==
  probabilities # << >> =>
    LET r == Last(processedImages)
        m == LowestMaximum(probabilities)
    IN /\ r.confidence = probabilities[m + 1]
       /\ \A j \in 1..Len(probabilities) : probabilities[j] <= r.confidence
       /\ r.classification = ClassificationOf(names, m)

\* a tie between the two outputs, labelled by the first
C8_Witness ==
  /\ probabilities # << >>
  /\ probabilities[1] = probabilities[2]
  /\ Len(names) = 2 /\ names[1] # << >>
  /\ Last(processedImages).classification = names[1]

\* C9: the label of an item is the label the list has at the index of the
\* highest output when the index is inside the list, and the placeholder
\* "Class <index>" only when the index is outside the list.
C9_LabelFromList ==
  probabilities # << >> =>
    LET r == Last(processedImages)
        m == LowestMaximum(probabilities)
    IN IF m < Len(names)
         THEN r.classification = names[m + 1]
         ELSE r.classification = StrClass \o ToString(m)

\* C10: while a run is in flight, progress.completed does not run ahead of
\* the number of items whose result was appended, and total is the number
\* of inputs.
C10_ProgressNotAhead ==
  isBatchProcessing =>
    /\ batchProgress.current <= Len(processedImages)
    /\ batchProgress.total = Len(images)

\* C11: the callback onImageClassified is called exactly once for each item
\* whose classification completed, with that item's label and in input
\* order, and in no other step: not for an item that failed or that the
\* run did not reach.
C11_CallbackOncePerItem ==
  /\ [](pc # "idle" =>
          /\ Len(processedImages) = i
          /\ Len(classifications) >= i
          /\ \A k \in 1..i :
               /\ processedImages[k].file = images[k]
               /\ classifications[Len(classifications) - i + k]
                    = processedImages[k].classification)
  /\ [][IF pc = "data" /\ i' = i + 1
         THEN classifications'
                = classifications \o << Last(processedImages').classification >>
         ELSE classifications' = classifications]_vars

\* the first item of a run was classified and reported, the second cannot
\* be decoded
C11_Witness ==
  /\ imgLoad = "error" /\ i = 1
  /\ Len(images) = 2
  /\ classifications = << processedImages[1].classification >>

\* C12: at most one batch run is in flight: a run starts only when no run
\* is in flight, at whatever await the earlier run is suspended when the
\* user clicks.
C12_OneRunAtATime ==
  /\ [](isBatchProcessing <=> pc # "idle")
  /\ [][submitted' > submitted =>
          /\ ~isBatchProcessing /\ pc = "idle"
          /\ isBatchProcessing' /\ pc' = "preprocess"]_vars

\* a run is suspended at predictions.data() and there is a selection that
\* a click on "Process Images" would start a run with
C12_Witness ==
  /\ isBatchProcessing /\ pc = "data"
  /\ Len(batchImages) > 0
  /\ submitted + Len(batchImages) <= MaxImages

C14_TopLevelFolder ==
  pc = "generate" =>
    /\ \E e \in zip : e.dir /\ e.path = folderName \o << "/" >>
    /\ \A e \in zip : StartsWith(e.path, folderName \o << "/" >>)

\* the file of an image is in a folder of the archive
SavedTo(z, category, file) ==
  \E e \in FilesIn(z, category) : e.data = << file >>

C16_FallbackOnlyWithoutMetadata ==
  (pc # "idle" /\ Len(processedImages) > 0 /\ names = DefaultClassNames) =>
    classNames = DefaultClassNames

\* C17: no tensor of an item is alive when the next item starts, when the
\* loop is over, or when the run has ended, aborted or not.
C17_NoLiveTensors ==
  pc \in { "idle", "preprocess", "import", "generate" } => tensors = 0

\* the number of images of a history that the routing sends to a folder
RoutedTo(history, category) ==
  Cardinality({ k \in 1..Len(history) :
                  CategoryOf(history[k].confidence, history[k].classification)
                    = category })

\* C18: the three statistics add up to the length of the history, and each
\* is the number of images the routing sent to the folder of its name.
C18_StatsPartition ==
  LET stats == GetClassificationStats(classifiedImages)
  IN /\ stats.normalCount + stats.theftCount + stats.unidentifiedCount
          = Len(classifiedImages)
     /\ stats.normalCount = RoutedTo(classifiedImages, StrNormal)
     /\ stats.theftCount = RoutedTo(classifiedImages, StrTheft)
     /\ stats.unidentifiedCount = RoutedTo(classifiedImages, StrUnidentified)

\* C19: when no run is in flight, Home has recorded as many
\* classifications as the session history has entries.
C19_HomeCountsHistory ==
  ~isBatchProcessing => Len(classifications) = Len(classifiedImages)

\* C20: a selection made while a run is in flight does not change the
\* inputs of the run, and it is still the selection when the run has ended.
C20_SelectionSurvivesRun ==
  /\ [][(pc # "idle" /\ pc' # "idle") => images' = images]_vars
  /\ [][(pc # "idle" /\ pc' = "idle" /\ batchImages # images) =>
          batchImages' = batchImages]_vars

\* the step in which a run ends in the catch block
RunFails ==
  pc # "idle" /\ pc' = "idle" /\ alerts' = << AlertFailed >>

\* a step of the run in flight, as opposed to a step of the user or of
\* loadLocalModel
RunStep ==
  pc # "idle" /\ << runVars, imgLoad, tensors >>' # << runVars, imgLoad, tensors >>

\* C21: no step of a run that ends in failure changes classifiedImages or
\* batchImages, so that after the failure they are what they were when the
\* run started and the same batch can be processed again; after the
\* failure, and after a successful run as well, isBatchProcessing is false
\* and batchProgress is 0/0.
C21_FailedRunLeavesSelectionAndHistory ==
  [][/\ (RunStep /\ pc' # "idle") =>
          classifiedImages' = classifiedImages /\ batchImages' = batchImages
     /\ RunFails =>
          /\ classifiedImages' = classifiedImages
          /\ batchImages' = batchImages
          /\ batchImages = images => ProcessButtonEnabled'
          /\ ~isBatchProcessing'
          /\ batchProgress' = [current |-> 0, total |-> 0]
     /\ CompletesSuccessfully =>
          /\ ~isBatchProcessing'
          /\ batchProgress' = [current |-> 0, total |-> 0]]_vars

\* a run has failed after an earlier run had completed: the history of the
\* earlier run and the selection of the failed one are there
C21_Witness ==
  /\ pc = "idle" /\ alerts = << AlertFailed >>
  /\ Len(classifiedImages) > 0
  /\ Len(batchImages) > 0
  /\ ~isBatchProcessing

=============================================================================
